---------------------------- MODULE Spec2Model ----------------------------
(***************************************************************************)
(* muko: a command-line utility that manages tagged entries of the hosts   *)
(* file (src/src/main.rs).  The model keeps the hosts file as a sequence   *)
(* of text lines, each line a string, and models the three commands        *)
(* (add, dev/prod, report) with their read, in-memory rewrite, truncating  *)
(* write-back and DNS-resolving report.                                    *)
(***************************************************************************)
EXTENDS Naturals, Sequences, FiniteSets, TLC

(***************************************************************************)
(* Characters and character classes.  A line is a string; Ch(s, i) is its  *)
(* i-th character as a one-character string.                               *)
(***************************************************************************)
Ch(s, i) == SubSeq(s, i, i)

\* s[i..] (Rust: &s[i-1..]); the empty string when i is past the end.
From(s, i) == SubSeq(s, i, Len(s))

\* char::is_whitespace, restricted to the two ASCII blanks a hosts file uses.
IsWs(c) == c \in {" ", "\t"}

\* regex \d
IsDigit(c) == c \in {"0", "1", "2", "3", "4", "5", "6", "7", "8", "9"}

\* regex [0-9a-fA-F:]
IsHexColon(c) ==
    \/ IsDigit(c)
    \/ c \in {"a", "b", "c", "d", "e", "f", "A", "B", "C", "D", "E", "F", ":"}

\* const MUKO_TAG
MUKO_TAG == "#muko:"

\* Option::None
None == "<none>"

(***************************************************************************)
(* String functions of the Rust standard library, as the code uses them.   *)
(***************************************************************************)
\* The first index >= i whose character is not whitespace (Len(s)+1 if none).
RECURSIVE SkipWs(_, _)
SkipWs(s, i) ==
    IF i <= Len(s) /\ IsWs(Ch(s, i)) THEN SkipWs(s, i + 1) ELSE i

\* The first index >= i whose character is whitespace (Len(s)+1 if none).
RECURSIVE SkipNonWs(_, _)
SkipNonWs(s, i) ==
    IF i <= Len(s) /\ ~IsWs(Ch(s, i)) THEN SkipNonWs(s, i + 1) ELSE i

\* The first index >= i whose character is not '#'.
RECURSIVE SkipHash(_, _)
SkipHash(s, i) ==
    IF i <= Len(s) /\ Ch(s, i) = "#" THEN SkipHash(s, i + 1) ELSE i

\* The first index >= i whose character is not a digit.
RECURSIVE SkipDigits(_, _)
SkipDigits(s, i) ==
    IF i <= Len(s) /\ IsDigit(Ch(s, i)) THEN SkipDigits(s, i + 1) ELSE i

\* The first index >= i whose character is not in [0-9a-fA-F:].
RECURSIVE SkipHexColon(_, _)
SkipHexColon(s, i) ==
    IF i <= Len(s) /\ IsHexColon(Ch(s, i)) THEN SkipHexColon(s, i + 1) ELSE i

\* str::trim_start
trim_start(s) == From(s, SkipWs(s, 1))

\* str::trim_start_matches('#'): removes every leading '#', not only one.
trim_start_matches_hash(s) == From(s, SkipHash(s, 1))

\* str::starts_with
starts_with(s, p) == Len(s) >= Len(p) /\ SubSeq(s, 1, Len(p)) = p

\* t occurs in s at index i
OccursAt(s, t, i) == i + Len(t) - 1 <= Len(s) /\ SubSeq(s, i, i + Len(t) - 1) = t

\* str::contains
contains(s, t) == \E i \in 1..(Len(s) + 1) : OccursAt(s, t, i)

\* s.split('#').next(): the text before the first '#'.
RECURSIVE FirstHash(_, _)
FirstHash(s, i) ==
    IF i <= Len(s) /\ Ch(s, i) # "#" THEN FirstHash(s, i + 1) ELSE i

split_hash_first(s) == SubSeq(s, 1, FirstHash(s, 1) - 1)

\* str::split_whitespace, collected: the maximal runs of non-whitespace.
RECURSIVE TokensFrom(_, _)
TokensFrom(s, i) ==
    LET b == SkipWs(s, i)
        e == SkipNonWs(s, b)
    IN  IF b > Len(s) THEN << >>
        ELSE <<SubSeq(s, b, e - 1)>> \o TokensFrom(s, e)

split_whitespace(s) == TokensFrom(s, 1)

(***************************************************************************)
(* The managed-line regular expression (main.rs lines 187-189, 275-277),   *)
(* written here with a blank before each closing parenthesis of a group:   *)
(*   ^(# )?\s*((?:\d+\.\d+\.\d+\.\d+ )|(?:[0-9a-fA-F:]+ ))\s+(\S+ )\s+     *)
(*   #muko:\s*(\S* )                                                       *)
(* matched the way the regex crate matches it: leftmost-first, greedy,     *)
(* the first alternative preferred, backtracking into the second and into  *)
(* the optional '#'.  Every repetition is followed by an element disjoint  *)
(* from its class, so the greedy length is the only one that can match and *)
(* a Skip* run gives it.                                                   *)
(***************************************************************************)
NoMatch == [ok |-> FALSE]

\* The part after the IP, from index p: blanks, domain, blanks, tag, alias.
ReTail(s, hash, ip, p) ==
    LET d0 == SkipWs(s, p)               \* \s+
        d1 == SkipNonWs(s, d0)           \* \S+, captured
        t0 == SkipWs(s, d1)              \* \s+
        a0 == SkipWs(s, t0 + Len(MUKO_TAG))     \* \s*
        a1 == SkipNonWs(s, a0)           \* \S*, captured
    IN  IF /\ d0 > p
           /\ d1 > d0
           /\ t0 > d1
           /\ OccursAt(s, MUKO_TAG, t0)
        THEN [ok |-> TRUE, hash |-> hash, ip |-> ip,
              domain |-> SubSeq(s, d0, d1 - 1),
              alias |-> SubSeq(s, a0, a1 - 1)]
        ELSE NoMatch

\* \d+\.\d+\.\d+\.\d+ from index p: the index after it, or 0.
IPv4End(s, p) ==
    LET e1 == SkipDigits(s, p)
        e2 == SkipDigits(s, e1 + 1)
        e3 == SkipDigits(s, e2 + 1)
        e4 == SkipDigits(s, e3 + 1)
    IN  IF /\ e1 > p     /\ Ch(s, e1) = "."
           /\ e2 > e1 + 1 /\ Ch(s, e2) = "."
           /\ e3 > e2 + 1 /\ Ch(s, e3) = "."
           /\ e4 > e3 + 1
        THEN e4 ELSE 0

\* [0-9a-fA-F:]+ from index p: the index after it, or 0.
HexColonEnd(s, p) ==
    LET e == SkipHexColon(s, p) IN IF e > p THEN e ELSE 0

\* \s*(IP)... from index p, after the optional '#' was decided.
ReBody(s, hash, p) ==
    LET q  == SkipWs(s, p)
        v4 == IPv4End(s, q)
        m4 == IF v4 = 0 THEN NoMatch ELSE ReTail(s, hash, SubSeq(s, q, v4 - 1), v4)
        v6 == HexColonEnd(s, q)
        m6 == IF v6 = 0 THEN NoMatch ELSE ReTail(s, hash, SubSeq(s, q, v6 - 1), v6)
    IN  IF m4.ok THEN m4 ELSE m6

\* re.captures(&line): group 1 = hash, 2 = ip, 3 = domain, 4 = alias.
re_captures(s) ==
    LET with == IF starts_with(s, "#") THEN ReBody(s, TRUE, 2) ELSE NoMatch
    IN  IF with.ok THEN with ELSE ReBody(s, FALSE, 1)

(***************************************************************************)
(* Bounds of the model and the inputs the commands are run with.           *)
(***************************************************************************)
\* Longest hosts file of an initial state, and longest that `add` is run on.
MaxLines == 2

\* The retry loop `for attempt in 1..=3` of parse_muko_entries.
MaxAttempts == 3

\* Hosts files of the initial states: every sequence of at most n lines of S.
SeqsUpTo(S, n) == UNION { [1..k -> S] : k \in 0..n }

\* Lines of a hosts file on which every command has something to do: an
\* active and an inactive managed entry, a plain host line and a comment.
MixedPool ==
    { "1.1.1.1 fo #muko: al",
      "#1.1.1.1 fox #muko: fo",
      "1.1.1.1 fo",
      "# fo is local" }

\* Lines for dev/prod: managed entries that are active, inactive, indented
\* and irregularly spaced, matched by domain or by alias, with an IPv6
\* address and no alias, and a tagged line that fails the grammar.
ModePool ==
    { "1.1.1.1 fo #muko: al",
      " 1.1.1.1\tfo  #muko:al",
      "#1.1.1.1 fox #muko: fo",
      "# ::1 al #muko:",
      "1.1.1 fo #muko: al" }

\* Lines for add: host lines of the domain that are managed, plain,
\* commented out once, twice and after a blank, and lines that have the
\* domain only inside a longer token, as their first token or in a comment.
AddPool ==
    { "# 1.1.1.1 fo #muko: al",
      "1.1.1.1 fo",
      "##1.1.1.1 fo",
      " # 2.2.2.2 ba fo",
      "fo 1.1.1.1",
      "1.1.1.1 xfo # fo",
      "1.1.1 fo #muko: al" }

\* Lines for the report: managed entries, active and inactive, whose ip is
\* and is not an address DNS answers with, and lines that are not managed.
ReportPool ==
    { "1.1.1.1 fo #muko: al",
      " 1.1.1.1\tfo  #muko:al",
      "#1.1.1.1 fox #muko: fo",
      "# ::1 al #muko:",
      "1.1.1 fo #muko: al",
      "# 1.1.1.1 fo" }

\* Arguments of `muko add`.
AddDomains == { "fo" }
AddDomainsWide == { "fo", "xfo" }
AddIps == { "2.2.2.2" }
AddAliases == { "al" }

\* Arguments of `muko dev` and `muko prod`.
Identifiers == { "fo", "al", "zz" }

\* What lookup_host(domain) gives: an error, or a first address.
DnsFail == "<fail>"
DnsOther == "9.9.9.9"
DnsAnswers == { "1.1.1.1", DnsOther }

(***************************************************************************)
(* The commands.                                                           *)
(***************************************************************************)
AddCmd(domain, ip, alias) ==
    [kind |-> "add", domain |-> domain, ip |-> ip, alias |-> alias,
     identifier |-> None, dev_mode |-> FALSE]

ModeCmd(identifier, dev_mode) ==
    [kind |-> "mode", domain |-> None, ip |-> None, alias |-> None,
     identifier |-> identifier, dev_mode |-> dev_mode]

ReportCmd ==
    [kind |-> "report", domain |-> None, ip |-> None, alias |-> None,
     identifier |-> None, dev_mode |-> FALSE]

NoCmd ==
    [kind |-> "none", domain |-> None, ip |-> None, alias |-> None,
     identifier |-> None, dev_mode |-> FALSE]

\* main: `add` uses the domain name as the alias when --alias is absent.
AddCommands(domains) ==
    { AddCmd(d, i, a) : d \in domains, i \in AddIps, a \in AddAliases }
    \cup { AddCmd(d, i, d) : d \in domains, i \in AddIps }

ModeCommands == { ModeCmd(id, m) : id \in Identifiers, m \in BOOLEAN }

Commands == AddCommands(AddDomains) \cup ModeCommands \cup { ReportCmd }

(***************************************************************************)
(* add_domain: the rewrite of the line vector.                             *)
(***************************************************************************)
\* format!("{} {} {} {}", ip, domain, MUKO_TAG, alias)
new_entry(domain, ip, alias) ==
    ip \o " " \o domain \o " " \o MUKO_TAG \o " " \o alias

\* Mutation: a commented-out line is not uncommented before it is split.
add_tokens_no_comment(line) ==
    split_whitespace(split_hash_first(trim_start(line)))

\* The tokens add_domain compares with the domain (lines 120-132).
add_tokens(line) ==
    LET trimmed == trim_start(line)
        content == IF starts_with(trimmed, "#")
                   THEN trim_start(trim_start_matches_hash(trimmed))
                   ELSE trimmed
        before_comment == split_hash_first(content)
    IN  split_whitespace(before_comment)

\* Mutation: tokens[0..] instead of tokens[1..].
add_hostname_match_any_token(tokens, domain) ==
    /\ Len(tokens) >= 2
    /\ \E i \in 1..Len(tokens) : tokens[i] = domain

\* tokens[1..].iter().any(|&h| h == domain), under tokens.len() >= 2
add_hostname_match(tokens, domain) ==
    /\ Len(tokens) >= 2
    /\ \E i \in 2..Len(tokens) : tokens[i] = domain

\* Mutation: the substring check alone decides.
add_drops_substring(line, domain) == contains(line, domain)

\* TRUE when the loop of add_domain skips the line (the duplicate).
add_drops(line, domain) ==
    IF ~contains(line, domain) THEN FALSE
    ELSE add_hostname_match(add_tokens(line), domain)

\* The vector `lines` add_domain writes back.
add_lines(old, domain, ip, alias) ==
    LET Keep(l) == ~add_drops(l, domain)
    IN  Append(SelectSeq(old, Keep), new_entry(domain, ip, alias))

(***************************************************************************)
(* set_mode: the rewrite of the line vector.                               *)
(***************************************************************************)
\* Mutation: trim_start() without trim_start_matches('#').
uncomment_keeps_hash(line) == trim_start(line)

\* line.trim_start_matches('#').trim_start().to_string()
uncomment(line) == trim_start(trim_start_matches_hash(line))

\* format!("#{}", line)
comment_out(line) == "#" \o line

\* Mutation: the alias is not compared.
mode_matches_domain_only(line, identifier) ==
    /\ contains(line, MUKO_TAG)
    /\ LET caps == re_captures(line)
       IN  caps.ok /\ caps.domain = identifier

\* domain == identifier || alias_str == identifier, on a captured line
mode_matches(line, identifier) ==
    /\ contains(line, MUKO_TAG)
    /\ LET caps == re_captures(line)
       IN  caps.ok /\ (caps.domain = identifier \/ caps.alias = identifier)

\* Mutation: is_commented is not looked at.
set_mode_line_unconditional(line, identifier, dev_mode) ==
    IF mode_matches(line, identifier)
    THEN IF dev_mode THEN uncomment(line) ELSE comment_out(line)
    ELSE line

\* What the loop of set_mode pushes for one line.
set_mode_line(line, identifier, dev_mode) ==
    IF mode_matches(line, identifier)
    THEN LET is_commented == re_captures(line).hash
         IN  IF dev_mode
             THEN IF is_commented THEN uncomment(line) ELSE line
             ELSE IF ~is_commented THEN comment_out(line) ELSE line
    ELSE line

set_mode_lines(old, identifier, dev_mode) ==
    [i \in 1..Len(old) |-> set_mode_line(old[i], identifier, dev_mode)]

set_mode_found(old, identifier) ==
    \E i \in 1..Len(old) : mode_matches(old[i], identifier)

\* Mutation: the check of `found` is missing.
not_found_ignored(found) == FALSE

\* if !found { return Err(NotFound) }
not_found_returns(found) == ~found

(***************************************************************************)
(* parse_muko_entries: one decoded line, and the lookup policy.            *)
(***************************************************************************)
\* A line parse_muko_entries pushes an entry for.
is_managed(line) == contains(line, MUKO_TAG) /\ re_captures(line).ok

\* The MukoManagedDomain of a managed line, before resolution.
decode(line) ==
    LET caps == re_captures(line)
    IN  [ip |-> caps.ip, domain |-> caps.domain,
         alias |-> IF caps.alias = "" THEN None ELSE caps.alias,
         active |-> ~caps.hash, prod_ip |-> None]

\* Mutation: every entry is resolved.
needs_lookup_always(active) == TRUE

\* `if !active`: only an inactive entry is resolved.
needs_lookup(active) == ~active

\* Mutation: any answer ends the retry loop.
is_real_ip_any(lookup_ip, ip) == TRUE

\* `if lookup_ip != ip`: the answer that ends the retry loop.
is_real_ip(lookup_ip, ip) == lookup_ip # ip

(***************************************************************************)
(* State.                                                                  *)
(***************************************************************************)
VARIABLES
    file,         \* /etc/hosts on disk: the sequence of its lines
    pc,           \* where the running command is: idle, write_open, write,
                  \* report, lookup, done
    op,           \* the command being run
    orig,         \* history: the file when the command started (kept until
                  \* the write-back is over)
    lines,        \* the Vec `lines` built by add_domain / set_mode
    wopened,      \* history: the command opened the file with truncate(true)
    result,       \* how the command ended: ok, NotFound, killed, and the
                  \* io::Error of a read (ReadError) or of the write-back (IOError)
    ridx,         \* parse_muko_entries: index of the next line to read
    attempt,      \* parse_muko_entries: `attempt` of the retry loop (0 outside)
    resolved_ip,  \* parse_muko_entries: `resolved_ip`
    cur,          \* parse_muko_entries: the entry being resolved
    entries,      \* parse_muko_entries: the Vec `entries`
    lookups,      \* history: answers of lookup_host for the latest entry
    sleeps,       \* history: thread::sleep calls made for the latest entry
    prev          \* history: the latest dev/prod that wrote the file back and
                  \* the file it started from; `fresh` while that command runs

vars == << file, pc, op, orig, lines, wopened, result, ridx, attempt,
           resolved_ip, cur, entries, lookups, sleeps, prev >>

reportVars == << ridx, attempt, resolved_ip, cur, entries, lookups, sleeps >>

NoPrev == [op |-> NoCmd, orig |-> << >>, fresh |-> FALSE]
NoEntry == [ip |-> None, domain |-> None, alias |-> None, active |-> TRUE,
            prod_ip |-> None]

InitOver(pool) ==
    /\ file \in SeqsUpTo(pool, MaxLines)
    /\ pc = "idle"
    /\ op = NoCmd
    /\ orig = << >>
    /\ lines = << >>
    /\ wopened = FALSE
    /\ result = None
    /\ ridx = 1
    /\ attempt = 0
    /\ resolved_ip = None
    /\ cur = NoEntry
    /\ entries = << >>
    /\ lookups = << >>
    /\ sleeps = 0
    /\ prev = NoPrev

Init == InitOver(MixedPool)

\* A command starts: the process is new, nothing of the last one is left.
Begin(cmd) ==
    /\ pc = "idle"
    /\ op' = cmd
    /\ orig' = file
    /\ wopened' = FALSE
    /\ prev' = [prev EXCEPT !.fresh = FALSE]
    /\ UNCHANGED << file, reportVars >>

(***************************************************************************)
(* add_domain, lines 99-150: read the file and build `lines`.              *)
(***************************************************************************)
AddDomain(domain, ip, alias) ==
    /\ Len(file) <= MaxLines
    /\ Begin(AddCmd(domain, ip, alias))
    /\ lines' = add_lines(file, domain, ip, alias)
    /\ pc' = "write_open"
    /\ result' = None

(***************************************************************************)
(* set_mode, lines 180-239: read the file, build `lines`, NotFound.        *)
(***************************************************************************)
SetMode(identifier, dev_mode) ==
    /\ Begin(ModeCmd(identifier, dev_mode))
    /\ lines' = set_mode_lines(file, identifier, dev_mode)
    /\ IF not_found_returns(set_mode_found(file, identifier))
       THEN pc' = "done" /\ result' = "NotFound"
       ELSE pc' = "write_open" /\ result' = None

(***************************************************************************)
(* main with no subcommand, lines 83-95: the report alone.                 *)
(***************************************************************************)
Report ==
    /\ Begin(ReportCmd)
    /\ lines' = << >>
    /\ pc' = "report"
    /\ result' = None

(***************************************************************************)
(* fs::File::open(path)? fails at the start of a command.                  *)
(***************************************************************************)
ReadFails(cmd) ==
    /\ Begin(cmd)
    /\ lines' = << >>
    /\ pc' = "done"
    /\ result' = "ReadError"

(***************************************************************************)
(* The write-back, lines 152-160 and 241-249: OpenOptions with             *)
(* truncate(true) empties the file in place, then one writeln! per line    *)
(* on the unbuffered File.  Each step can fail, and the process can be     *)
(* interrupted between any two steps.                                      *)
(***************************************************************************)
OpenTruncate ==
    /\ pc = "write_open"
    /\ file' = << >>
    /\ wopened' = TRUE
    /\ pc' = "write"
    /\ UNCHANGED << op, orig, lines, result, reportVars, prev >>

OpenWriteFails ==
    /\ pc = "write_open"
    /\ pc' = "done"
    /\ result' = "IOError"
    /\ UNCHANGED << file, op, orig, lines, wopened, reportVars, prev >>

WriteLine ==
    /\ pc = "write"
    /\ Len(file) < Len(lines)
    /\ file' = Append(file, lines[Len(file) + 1])
    /\ UNCHANGED << pc, op, orig, lines, wopened, result, reportVars, prev >>

WriteFails ==
    /\ pc = "write"
    /\ Len(file) < Len(lines)
    /\ pc' = "done"
    /\ result' = "IOError"
    /\ UNCHANGED << file, op, orig, lines, wopened, reportVars, prev >>

Interrupt ==
    /\ pc \in { "write_open", "write" }
    /\ pc' = "done"
    /\ result' = "killed"
    /\ UNCHANGED << file, op, orig, lines, wopened, reportVars, prev >>

\* The loop is over: the messages are printed and the report starts.  The
\* history of the write-back ends here; a dev/prod becomes the latest one.
WriteDone ==
    /\ pc = "write"
    /\ Len(file) = Len(lines)
    /\ pc' = "report"
    /\ prev' = IF op.kind = "mode"
               THEN [op |-> op, orig |-> orig, fresh |-> TRUE]
               ELSE NoPrev
    /\ orig' = << >>
    /\ UNCHANGED << file, op, lines, wopened, result, reportVars >>

WriteBack ==
    \/ OpenTruncate
    \/ OpenWriteFails
    \/ WriteLine
    \/ WriteFails
    \/ Interrupt
    \/ WriteDone

(***************************************************************************)
(* parse_muko_entries, lines 264-341.                                      *)
(***************************************************************************)
\* The entry is pushed and the loop over the lines goes on.
Push(e) ==
    /\ entries' = Append(entries, e)
    /\ ridx' = ridx + 1
    /\ attempt' = 0
    /\ resolved_ip' = None
    /\ cur' = NoEntry
    /\ pc' = "report"

\* One pass of `for line in reader.lines()` up to the retry loop.
ReportLine ==
    /\ pc = "report"
    /\ ridx <= Len(file)
    /\ LET line == file[ridx]
       IN  IF ~is_managed(line)
           THEN /\ ridx' = ridx + 1
                /\ UNCHANGED << pc, attempt, resolved_ip, cur, entries,
                                lookups, sleeps >>
           ELSE LET e == decode(line)
                IN  /\ lookups' = << >>
                    /\ sleeps' = 0
                    /\ IF needs_lookup(e.active)
                       THEN /\ pc' = "lookup"
                            /\ attempt' = 1
                            /\ resolved_ip' = None
                            /\ cur' = e
                            /\ UNCHANGED << ridx, entries >>
                       ELSE Push(e)
    /\ UNCHANGED << file, op, orig, lines, wopened, result, prev >>

\* One pass of `for attempt in 1..=3`, lookup_host answering r.
Lookup(r) ==
    /\ pc = "lookup"
    /\ lookups' = Append(lookups, r)
    /\ IF r # DnsFail /\ is_real_ip(r, cur.ip)
       THEN /\ Push([cur EXCEPT !.prod_ip = r])
            /\ UNCHANGED sleeps
       ELSE LET res == IF r # DnsFail THEN r ELSE resolved_ip
            IN  IF attempt < MaxAttempts
                THEN /\ sleeps' = sleeps + 1
                     /\ attempt' = attempt + 1
                     /\ resolved_ip' = res
                     /\ UNCHANGED << pc, ridx, cur, entries >>
                ELSE /\ Push([cur EXCEPT !.prod_ip = res])
                     /\ UNCHANGED sleeps
    /\ UNCHANGED << file, op, orig, lines, wopened, result, prev >>

\* fs::File::open(path)? of parse_muko_entries fails: nothing is printed.
ReportOpenFails ==
    /\ pc = "report"
    /\ ridx = 1
    /\ pc' = "done"
    /\ result' = "ReadError"
    /\ UNCHANGED << file, op, orig, lines, wopened, reportVars, prev >>

\* Ok(entries): the table is printed and the command returns Ok(()).
ReportEnd ==
    /\ pc = "report"
    /\ ridx > Len(file)
    /\ pc' = "done"
    /\ result' = "ok"
    /\ UNCHANGED << file, op, orig, lines, wopened, reportVars, prev >>

\* The report, DNS answering with an error or an address of `answers`.
ResolveWith(answers) ==
    \/ ReportLine
    \/ \E r \in answers \cup { DnsFail } : Lookup(r)
    \/ ReportOpenFails
    \/ ReportEnd

Resolve == ResolveWith(DnsAnswers)

(***************************************************************************)
(* The process exits; the next command finds only the file.                *)
(***************************************************************************)
Exit ==
    /\ pc = "done"
    /\ pc' = "idle"
    /\ prev' = IF prev.fresh THEN prev ELSE NoPrev
    /\ op' = NoCmd
    /\ orig' = << >>
    /\ lines' = << >>
    /\ wopened' = FALSE
    /\ result' = None
    /\ ridx' = 1
    /\ attempt' = 0
    /\ resolved_ip' = None
    /\ cur' = NoEntry
    /\ entries' = << >>
    /\ lookups' = << >>
    /\ sleeps' = 0
    /\ UNCHANGED file

(***************************************************************************)
(* The specifications: every command on a mixed file (Spec), and each      *)
(* command alone on the lines that matter to it.                           *)
(***************************************************************************)
Next ==
    \/ \E d \in AddDomains, i \in AddIps :
          \E a \in AddAliases \cup { d } : AddDomain(d, i, a)
    \/ \E id \in Identifiers, m \in BOOLEAN : SetMode(id, m)
    \/ Report
    \/ \E cmd \in Commands : ReadFails(cmd)
    \/ WriteBack
    \/ Resolve
    \/ Exit

Spec == Init /\ [][Next]_vars

NextMode ==
    \/ \E id \in Identifiers, m \in BOOLEAN : SetMode(id, m)
    \/ \E cmd \in ModeCommands : ReadFails(cmd)
    \/ WriteBack
    \/ ResolveWith({ DnsOther })
    \/ Exit

SpecMode == InitOver(ModePool) /\ [][NextMode]_vars

NextAdd ==
    \/ \E d \in AddDomainsWide, i \in AddIps :
          \E a \in AddAliases \cup { d } : AddDomain(d, i, a)
    \/ \E cmd \in AddCommands(AddDomainsWide) : ReadFails(cmd)
    \/ WriteBack
    \/ Resolve
    \/ Exit

SpecAdd == InitOver(AddPool) /\ [][NextAdd]_vars

NextReport ==
    \/ Report
    \/ ReadFails(ReportCmd)
    \/ Resolve
    \/ Exit

SpecReport == InitOver(ReportPool) /\ [][NextReport]_vars

(***************************************************************************)
(* Notions the properties are stated with.                                 *)
(***************************************************************************)
\* The command has read the file and built its line vector, and its
\* write-back is not over: `orig` and `lines` are the old and the new file.
HasRead ==
    \/ pc \in { "write_open", "write" }
    \/ pc = "done" /\ result \in { "NotFound", "IOError", "killed" }

\* The write-back of the command has written its last line.
Wrote(kind) == pc = "write" /\ Len(file) = Len(lines) /\ op.kind = kind

\* The command ran to its end and returned Ok(()).
Succeeded(kind) == pc = "done" /\ result = "ok" /\ op.kind = kind

\* From the end of the write-back to the end of the command the file is
\* the line vector that was written.
StaysWritten ==
    (pc \in { "report", "lookup", "done" } /\ wopened
        /\ result \in { None, "ok", "ReadError" }) => file = lines

\* All but the last element.
Front(q) == SubSeq(q, 1, Len(q) - 1)

\* How often line l occurs in q.
Count(q, l) == Cardinality({ i \in 1..Len(q) : q[i] = l })

\* The line decodes as a managed entry whose domain or alias is id.
EntryFor(l, id) ==
    is_managed(l) /\ (decode(l).domain = id \/ decode(l).alias = id)

\* (ip, domain, alias) of a managed line, None for any other line.
Triple(l) ==
    IF is_managed(l)
    THEN << decode(l).ip, decode(l).domain, decode(l).alias >>
    ELSE << None >>

\* A host line, plain or commented out, that lists d as a hostname: after
\* the leading blanks, the leading '#' characters and the blanks behind
\* them, the text before the next '#' has d as a token other than the first.
HostTokens(l) ==
    LET a == SkipWs(l, 1)
        b == SkipHash(l, a)
        c == IF b > a THEN SkipWs(l, b) ELSE a
    IN  split_whitespace(split_hash_first(From(l, c)))

ListsHostname(l, d) ==
    LET t == HostTokens(l)
    IN  Len(t) >= 2 /\ d \in { t[i] : i \in 2..Len(t) }

\* The same with one optional '#' in the first column only.
OneHashTokens(l) ==
    LET body == IF starts_with(l, "#") THEN From(l, 2) ELSE l
    IN  split_whitespace(split_hash_first(body))

ListsHostnameOneHash(l, d) ==
    LET t == OneHashTokens(l)
    IN  Len(t) >= 2 /\ d \in { t[i] : i \in 2..Len(t) }

\* A line "for" domain d: a managed entry of d, or a host line listing d.
LineFor(l, d) ==
    \/ is_managed(l) /\ decode(l).domain = d
    \/ ListsHostname(l, d)

\* dev(id) is running right after a successful prod(id).
DevAfterProd ==
    /\ HasRead
    /\ op.kind = "mode" /\ op.dev_mode
    /\ ~prev.fresh
    /\ prev.op = ModeCmd(op.identifier, FALSE)

\* The same dev/prod command is running a second time in a row.
SameModeAgain == HasRead /\ op.kind = "mode" /\ ~prev.fresh /\ prev.op = op

(***************************************************************************)
(* C1.  prod(id) then dev(id): every active managed line of id gets its    *)
(* text back, and every line that is no managed entry of id is as before.  *)
(***************************************************************************)
\* C1 as stated: the text comes back exactly, leading blanks included.
C1_RestoresExactly ==
    DevAfterProd =>
        /\ Len(lines) = Len(prev.orig)
        /\ \A i \in 1..Len(prev.orig) :
              LET L == prev.orig[i]
              IN  /\ (EntryFor(L, op.identifier) /\ decode(L).active)
                        => lines[i] = L
                  /\ ~EntryFor(L, op.identifier) => lines[i] = L

\* C1 amended: prod(id) then dev(id) gives an active managed line of id
\* back without its leading blanks (so exactly, when it has none; blanks
\* inside the line are kept); lines that are no managed entry of id are as
\* before; and a run that succeeds writes exactly that.
C1_RestoresButLeadingBlanks ==
    DevAfterProd =>
        /\ Len(lines) = Len(prev.orig)
        /\ \A i \in 1..Len(prev.orig) :
              LET L == prev.orig[i]
              IN  /\ (EntryFor(L, op.identifier) /\ decode(L).active)
                        => lines[i] = From(L, SkipWs(L, 1))
                  /\ ~EntryFor(L, op.identifier) => lines[i] = L
        /\ Wrote("mode") => file = lines

C1_Witness ==
    /\ DevAfterProd
    /\ Wrote("mode")
    /\ \E i \in 1..Len(prev.orig) :
          /\ EntryFor(prev.orig[i], op.identifier)
          /\ decode(prev.orig[i]).active
          /\ contains(prev.orig[i], "\t")
          /\ orig[i] # prev.orig[i]
    /\ \E i \in 1..Len(prev.orig) :
          /\ EntryFor(prev.orig[i], op.identifier)
          /\ decode(prev.orig[i]).active
          /\ file[i] = prev.orig[i]

(***************************************************************************)
(* C2.  dev(id) after dev(id), and prod(id) after prod(id): the second run *)
(* finds the entry and builds the line sequence it read; when it succeeds  *)
(* the file is what it was.                                                *)
(***************************************************************************)
C2_Idempotent ==
    SameModeAgain =>
        /\ result # "NotFound"
        /\ lines = orig
        /\ Wrote("mode") => file = orig

C2_Witness ==
    /\ SameModeAgain
    /\ Wrote("mode")
    /\ ~op.dev_mode
    /\ prev.orig # orig
    /\ file = orig

(***************************************************************************)
(* C3.  dev/prod with an identifier that no managed entry has: NotFound,   *)
(* the file is not opened for writing and keeps its lines.                 *)
(***************************************************************************)
C3_NotFoundLeavesFile ==
    /\ (HasRead /\ op.kind = "mode"
          /\ \A i \in 1..Len(orig) : ~EntryFor(orig[i], op.identifier))
        => /\ pc = "done"
           /\ result = "NotFound"
    /\ result = "NotFound" => (~wopened /\ file = orig /\ pc = "done")

C3_Witness ==
    /\ pc = "done"
    /\ result = "NotFound"
    /\ op.identifier = "zz"
    /\ Len(file) = 2
    /\ \E i \in 1..Len(file) : is_managed(file[i])

(***************************************************************************)
(* C4.  Lines that do not match the managed grammar.                       *)
(***************************************************************************)
NotManaged(l) == ~is_managed(l)

\* C4 as stated: after add, dev/prod and the report, the unmanaged lines
\* are the ones there were, in their order.
C4_NonInterference ==
    (Wrote("add") \/ Wrote("mode") \/ Succeeded("report")) =>
        SelectSeq(file, NotManaged) = SelectSeq(orig, NotManaged)

\* C4 amended: dev/prod and the report leave every unmanaged line where it
\* was; add keeps, in order and unchanged, the unmanaged lines that do not
\* list the added domain as a hostname, and removes those that do.
C4_NonInterferenceButAdd ==
    /\ (Wrote("mode") \/ Succeeded("report")) =>
          /\ Len(file) = Len(orig)
          /\ \A i \in 1..Len(orig) : NotManaged(orig[i]) => file[i] = orig[i]
          /\ SelectSeq(file, NotManaged) = SelectSeq(orig, NotManaged)
    /\ Wrote("add") =>
          LET Stays(l) == NotManaged(l) /\ ~ListsHostname(l, op.domain)
          IN  SelectSeq(file, NotManaged) = SelectSeq(orig, Stays)
    /\ StaysWritten

C4_Witness ==
    /\ Wrote("add")
    /\ \E i \in 1..Len(orig) :
          NotManaged(orig[i]) /\ ListsHostname(orig[i], op.domain)
    /\ \E i \in 1..Len(orig) :
          NotManaged(orig[i]) /\ contains(orig[i], op.domain) /\ file[1] = orig[i]

(***************************************************************************)
(* C5.  After add(domain, ip, alias) the file has exactly one line for the *)
(* domain: the last one, "{ip} {domain} #muko: {alias}", active; the other *)
(* lines are the old ones that were not for the domain, in their order.    *)
(***************************************************************************)
C5_DuplicateReplaced ==
    /\ StaysWritten
    /\ Wrote("add") =>
        LET d == op.domain
            new == op.ip \o " " \o d \o " #muko: " \o op.alias
            Other(l) == ~LineFor(l, d)
        IN  /\ Len(file) >= 1
            /\ file[Len(file)] = new
            /\ is_managed(new)
            /\ decode(new) = [ip |-> op.ip, domain |-> d, alias |-> op.alias,
                              active |-> TRUE, prod_ip |-> None]
            /\ { i \in 1..Len(file) : LineFor(file[i], d) } = { Len(file) }
            /\ Front(file) = SelectSeq(orig, Other)

C5_Witness ==
    /\ Wrote("add")
    /\ Len(orig) = 2
    /\ is_managed(orig[1]) /\ decode(orig[1]).domain = op.domain
    /\ ~LineFor(orig[2], op.domain)
    /\ Len(file) = 2
    /\ file[1] = orig[2]

(***************************************************************************)
(* C6.  The write-back is all-or-nothing: the file holds the old lines or  *)
(* the new lines at every point of add and dev/prod.                       *)
(***************************************************************************)
C6_AllOrNothing ==
    (HasRead /\ op.kind \in { "add", "mode" }) =>
        (file = orig \/ file = lines)

(***************************************************************************)
(* C7.  Resolution of an inactive entry: at most 3 lookups, the first      *)
(* answer that differs from the entry's ip ends them and is prod_ip;       *)
(* with no such answer prod_ip is the entry's ip if a lookup resolved and  *)
(* absent if all 3 failed; every managed line gets its entry.              *)
(***************************************************************************)
\* The lookups that answered something else than ip.
Differing(log, ip) ==
    { k \in 1..Len(log) : log[k] # DnsFail /\ log[k] # ip }

\* The managed lines among the first n lines of the file, decoded.
RECURSIVE DecodedUpTo(_, _)
DecodedUpTo(f, n) ==
    IF n = 0 THEN << >>
    ELSE IF is_managed(f[n])
         THEN Append(DecodedUpTo(f, n - 1), decode(f[n]))
         ELSE DecodedUpTo(f, n - 1)

C7_BoundedRetry ==
    /\ pc = "lookup" =>
          /\ Len(lookups) = attempt - 1
          /\ attempt <= 3
          /\ Differing(lookups, cur.ip) = { }
    /\ (pc \in { "report", "done" } /\ entries # << >>
          /\ ~entries[Len(entries)].active) =>
          LET e == entries[Len(entries)]
              diff == Differing(lookups, e.ip)
          IN  /\ Len(lookups) \in 1..3
              /\ diff # { } =>
                    /\ diff = { Len(lookups) }
                    /\ e.prod_ip = lookups[Len(lookups)]
              /\ diff = { } =>
                    /\ Len(lookups) = 3
                    /\ e.prod_ip = IF \E k \in 1..3 : lookups[k] = e.ip
                                   THEN e.ip ELSE None
    /\ pc \in { "report", "lookup", "done" } =>
          LET seen == DecodedUpTo(file, ridx - 1)
          IN  /\ Len(entries) = Len(seen)
              /\ \A j \in 1..Len(seen) :
                    entries[j] = [seen[j] EXCEPT !.prod_ip = entries[j].prod_ip]

C7_Witness ==
    /\ Succeeded("report")
    /\ Len(entries) = 2
    /\ ~entries[2].active
    /\ lookups = << entries[2].ip, entries[2].ip, "9.9.9.9" >>
    /\ entries[2].prod_ip = "9.9.9.9"
    /\ ~entries[1].active
    /\ entries[1].prod_ip = None

C7_WitnessProvisional ==
    /\ pc = "done"
    /\ entries # << >>
    /\ lookups = << "1.1.1.1", DnsFail, DnsFail >>
    /\ entries[Len(entries)].prod_ip = "1.1.1.1"

(***************************************************************************)
(* C8.  An active entry has no prod_ip: no lookup and no pause is made for *)
(* it, in the report of every command.                                     *)
(***************************************************************************)
C8_ActiveNeverResolved ==
    /\ \A j \in 1..Len(entries) :
          entries[j].active => entries[j].prod_ip = None
    /\ pc = "lookup" => ~cur.active
    /\ (pc \in { "report", "done" } /\ entries # << >>
          /\ entries[Len(entries)].active) =>
          (lookups = << >> /\ sleeps = 0)

C8_Witness ==
    /\ Succeeded("add")
    /\ Len(entries) = 2
    /\ ~entries[1].active /\ entries[1].prod_ip = "9.9.9.9"
    /\ entries[2].active /\ entries[2].domain = op.domain
    /\ lookups = << >>
    /\ sleeps = 0

(***************************************************************************)
(* C9.  After a successful dev/prod of id every managed entry of id has    *)
(* active = dev_mode, active means no '#' in the first column, and the     *)
(* (ip, domain, alias) of the managed entries and the number and order of  *)
(* the lines are as before.                                                *)
(***************************************************************************)
C9_OnlyCommentStateChanges ==
    /\ StaysWritten
    /\ Wrote("mode") =>
        /\ Len(file) = Len(orig)
        /\ \A i \in 1..Len(file) :
              /\ EntryFor(file[i], op.identifier)
                    => decode(file[i]).active = op.dev_mode
              /\ is_managed(file[i])
                    => (decode(file[i]).active <=> ~starts_with(file[i], "#"))
              /\ Triple(file[i]) = Triple(orig[i])

C9_Witness ==
    /\ Wrote("mode")
    /\ ~op.dev_mode
    /\ Len(file) = 2
    /\ EntryFor(orig[1], op.identifier) /\ decode(orig[1]).active
    /\ EntryFor(orig[2], op.identifier) /\ ~decode(orig[2]).active
    /\ decode(orig[1]).domain # decode(orig[2]).domain
    /\ file[1] # orig[1]

(***************************************************************************)
(* C10.  Which lines add(domain, ...) drops.                               *)
(***************************************************************************)
\* C10 as stated: a line is dropped only if it lists the domain as a
\* hostname once one optional '#' in the first column is stripped.
C10_DropsOnlyOneHash ==
    (HasRead /\ op.kind = "add") =>
        \A i \in 1..Len(orig) :
            ~ListsHostnameOneHash(orig[i], op.domain)
                => Count(Front(lines), orig[i]) = Count(orig, orig[i])

\* C10 amended: a line is dropped if and only if it lists the domain as a
\* hostname once its leading blanks, all of its leading '#' characters and
\* the blanks behind them are stripped and the text is cut at the next '#';
\* every other line is kept unchanged and in order.
C10_DropsOnlyHostLines ==
    (HasRead /\ op.kind = "add") =>
        LET Kept(l) == ~ListsHostname(l, op.domain)
        IN  /\ Front(lines) = SelectSeq(orig, Kept)
            /\ \A i \in 1..Len(orig) :
                  Kept(orig[i])
                      => Count(Front(lines), orig[i]) = Count(orig, orig[i])

C10_Witness ==
    /\ HasRead /\ op.kind = "add" /\ op.domain = "fo"
    /\ Len(orig) = 2
    /\ orig[1] = "##1.1.1.1 fo"
    /\ contains(orig[2], "fo") /\ ~ListsHostname(orig[2], "fo")
    /\ Len(lines) = 2
    /\ lines[1] = orig[2]

=============================================================================
